---- MODULE Spec2Model ----
(***************************************************************************)
(* increment_version.py: the firmware version bump of esp32-rtp.           *)
(*                                                                         *)
(* A file is a sequence of lexical tokens.  A token is one character       *)
(* (a digit, a blank, a line break, a double quote, a dot, a dash) or one  *)
(* literal run of text that the regular expressions of the script treat   *)
(* as a unit: the six literals "#define FIRMWARE_..." and pieces of        *)
(* unrelated text.  The regular expressions are evaluated on the token     *)
(* sequence the way re.search and re.sub evaluate them on the characters.  *)
(*                                                                         *)
(* Input files are headers made of whole lines: every string literal is    *)
(* closed on the line that opens it and holds no declaration, as in a C    *)
(* header.  Fields may be absent, declared twice or written with leading   *)
(* zeros, and the payloads of the two strings may be stale or empty.       *)
(***************************************************************************)
EXTENDS Integers, Sequences, FiniteSets, TLC

VARIABLES fs, runs, call, prev

vars == <<fs, runs, call, prev>>

\* Number of invocations of the script explored per behaviour.
MaxRuns == 3

-----------------------------------------------------------------------------
(* Tokens *)

NL == "\n"
SP == " "
TAB == "\t"
QUOTE == "\""

DigitChars == <<"0", "1", "2", "3", "4", "5", "6", "7", "8", "9">>

\* \d
IsDigit(c) == \E i \in 1..10 : DigitChars[i] = c

\* \s
IsSpace(c) == c \in {SP, TAB, NL}

\* [^"]
IsNotQuote(c) == c # QUOTE

DigitVal(c) == (CHOOSE i \in 1..10 : DigitChars[i] = c) - 1

\* A parse that reads the last digit only.
int_last_digit(ds) == IF ds = <<>> THEN 0 ELSE DigitVal(ds[Len(ds)])

\* int(match.group(2)): the value of a digit sequence, leading zeros allowed.
RECURSIVE int(_)
int(ds) ==
    IF ds = <<>> THEN 0
    ELSE int(SubSeq(ds, 1, Len(ds) - 1)) * 10 + DigitVal(ds[Len(ds)])

\* A rendering that writes the last digit only.
str_last_digit(n) == <<DigitChars[(n % 10) + 1]>>

\* f'{n}': the decimal digits of a non-negative integer, no leading zeros.
RECURSIVE str(_)
str(n) ==
    IF n < 10 THEN <<DigitChars[n + 1]>>
    ELSE str(n \div 10) \o <<DigitChars[(n % 10) + 1]>>

-----------------------------------------------------------------------------
(* The patterns dictionary and the two string patterns *)

\* patterns.items(): insertion order of the dictionary.
Keys == <<"major", "minor", "patch", "build">>

KeySet == {Keys[i] : i \in 1..Len(Keys)}

\* 'class' is the character class of group 2; 'close' says whether the
\* pattern ends with the group (") that the replacement copies back.
patterns ==
    [major |-> [literal |-> "#define FIRMWARE_VERSION_MAJOR", class |-> "d", close |-> FALSE],
     minor |-> [literal |-> "#define FIRMWARE_VERSION_MINOR", class |-> "d", close |-> FALSE],
     patch |-> [literal |-> "#define FIRMWARE_VERSION_PATCH", class |-> "d", close |-> FALSE],
     build |-> [literal |-> "#define FIRMWARE_BUILD_NUMBER", class |-> "d", close |-> FALSE]]

StringPattern ==
    [literal |-> "#define FIRMWARE_VERSION_STRING", class |-> "q", close |-> TRUE]

FullPattern ==
    [literal |-> "#define FIRMWARE_VERSION_FULL", class |-> "q", close |-> TRUE]

ProductName == "ESP32 RTP Transciever v"

-----------------------------------------------------------------------------
(* Regular expression matching on token sequences *)

InClass(p, c) == IF p.class = "d" THEN IsDigit(c) ELSE IsNotQuote(c)

\* Greedy run: the last index of the longest run of blanks starting at i
\* (i - 1 when the run is empty).
SpaceRun(s, i) ==
    IF i > Len(s) THEN i - 1
    ELSE CHOOSE j \in (i - 1)..Len(s) :
            /\ \A k \in i..j : IsSpace(s[k])
            /\ (j = Len(s) \/ ~IsSpace(s[j + 1]))

\* The same for the character class of group 2 of pattern p.
ClassRun(p, s, i) ==
    IF i > Len(s) THEN i - 1
    ELSE CHOOSE j \in (i - 1)..Len(s) :
            /\ \A k \in i..j : InClass(p, s[k])
            /\ (j = Len(s) \/ ~InClass(p, s[j + 1]))

\* The match of pattern p anchored at index i: group 1 is s[i..g1], group
\* 2 is s[g1+1..g2], the whole match is s[i..last].  The literal is
\* followed by \s+, for a string pattern by the opening quote (the end of
\* group 1), then by one or more characters of the class, for a string
\* pattern by the closing quote.  The classes of consecutive parts are
\* disjoint, so the greedy match is the only candidate.
MatchAt(p, s, i) ==
    LET w  == SpaceRun(s, i + 1)
        g1 == IF p.close THEN w + 1 ELSE w
        g2 == ClassRun(p, s, g1 + 1)
        ok == /\ w >= i + 1
              /\ (p.close => (g1 <= Len(s) /\ s[g1] = QUOTE))
              /\ g2 >= g1 + 1
              /\ (p.close => (g2 + 1 <= Len(s) /\ s[g2 + 1] = QUOTE))
    IN  IF i <= Len(s) /\ s[i] = p.literal /\ ok
        THEN [hit |-> TRUE, g1 |-> g1, g2 |-> g2,
              last |-> IF p.close THEN g2 + 1 ELSE g2]
        ELSE [hit |-> FALSE, g1 |-> 0, g2 |-> 0, last |-> 0]

\* The scan of the regular expression engine: the leftmost index from i on
\* at which pattern p matches, 0 when there is none.
NextMatch(p, s, i) ==
    LET hits == {j \in i..Len(s) : MatchAt(p, s, j).hit}
    IN  IF hits = {} THEN 0
        ELSE CHOOSE j \in hits : \A k \in hits : j <= k

\* re.search(pattern, content): the index of the leftmost match, 0 for None.
re_search(p, s) == NextMatch(p, s, 1)

\* One replacement: group 1, the new text, and group 3 when the pattern
\* has one.
Replacement(p, s, i, m, new) ==
    SubSeq(s, i, m.g1) \o new \o (IF p.close THEN <<s[m.last]>> ELSE <<>>)

\* re.sub(pattern, repl, content) from index i on: every non-overlapping
\* match, left to right, is replaced; the text between matches is copied.
RECURSIVE SubFrom(_, _, _, _)
SubFrom(p, new, s, i) ==
    LET h == NextMatch(p, s, i)
        m == MatchAt(p, s, h)
    IN  IF h = 0 THEN SubSeq(s, i, Len(s))
        ELSE SubSeq(s, i, h - 1) \o Replacement(p, s, h, m, new)
                \o SubFrom(p, new, s, m.last + 1)

re_sub(p, new, s) == SubFrom(p, new, s, 1)

-----------------------------------------------------------------------------
(* increment_version *)

\* An extraction whose default for a key that is not found is 1.
ExtractVersions_default_one(content) ==
    [key \in KeySet |->
        LET i == NextMatch(patterns[key], content, 1)
            m == MatchAt(patterns[key], content, i)
        IN  IF i # 0 THEN int(SubSeq(content, m.g1 + 1, m.g2)) ELSE 1]

\* Lines 36-44: the versions dictionary read from the content.  A key
\* whose pattern is not found gets 0.
ExtractVersions(content) ==
    [key \in KeySet |->
        LET i == re_search(patterns[key], content)
            m == MatchAt(patterns[key], content, i)
        IN  IF i # 0 THEN int(SubSeq(content, m.g1 + 1, m.g2)) ELSE 0]

\* Lines 38-44: one warning on stderr per key whose pattern is not found,
\* in the order of the dictionary.
Warnings(content) ==
    LET Missing(i) == re_search(patterns[Keys[i]], content) = 0
        W[i \in 0..Len(Keys)] ==
            IF i = 0 THEN <<>>
            ELSE IF Missing(i)
                 THEN Append(W[i - 1], <<"Warning: Could not find", Keys[i]>>)
                 ELSE W[i - 1]
    IN  W[Len(Keys)]

\* An increment whose major case forgets to reset patch.
Increment_major_keeps_patch(versions, increment_type) ==
    LET bumped == [versions EXCEPT ![increment_type] = @ + 1]
    IN  IF increment_type = "major"
        THEN [bumped EXCEPT !["minor"] = 0]
        ELSE IF increment_type = "minor"
             THEN [bumped EXCEPT !["patch"] = 0]
             ELSE bumped

\* An increment without the elif branch of line 55.
Increment_minor_keeps_patch(versions, increment_type) ==
    LET bumped == [versions EXCEPT ![increment_type] = @ + 1]
    IN  IF increment_type = "major"
        THEN [bumped EXCEPT !["minor"] = 0, !["patch"] = 0]
        ELSE bumped

\* An increment whose major case resets the build number too.
Increment_major_resets_build(versions, increment_type) ==
    LET bumped == [versions EXCEPT ![increment_type] = @ + 1]
    IN  IF increment_type = "major"
        THEN [bumped EXCEPT !["minor"] = 0, !["patch"] = 0, !["build"] = 0]
        ELSE IF increment_type = "minor"
             THEN [bumped EXCEPT !["patch"] = 0]
             ELSE bumped

\* Lines 48-56: the increment with its cascading resets (increment_type is
\* a key of versions).
Increment(versions, increment_type) ==
    LET bumped == [versions EXCEPT ![increment_type] = @ + 1]
    IN  IF increment_type = "major"
        THEN [bumped EXCEPT !["minor"] = 0, !["patch"] = 0]
        ELSE IF increment_type = "minor"
             THEN [bumped EXCEPT !["patch"] = 0]
             ELSE bumped

\* Lines 62-63: the four substitutions, in the order of the dictionary.
UpdateContent(content, versions) ==
    LET C[i \in 0..Len(Keys)] ==
            IF i = 0 THEN content
            ELSE re_sub(patterns[Keys[i]], str(versions[Keys[i]]), C[i - 1])
    IN  C[Len(Keys)]

\* Line 66.
version_string(versions) ==
    str(versions["major"]) \o <<".">> \o str(versions["minor"]) \o <<".">>
        \o str(versions["patch"]) \o <<"-">> \o str(versions["build"])

\* Line 73.
full_version(versions) == <<ProductName>> \o version_string(versions)

\* Lines 65-78: the two string substitutions.
UpdateStrings(content, versions) ==
    re_sub(FullPattern, full_version(versions),
           re_sub(StringPattern, version_string(versions), content))

Absent == [exists |-> FALSE, text |-> <<>>]

File(text) == [exists |-> TRUE, text |-> text]

\* A script that does not test the path.
PathExists_unchecked(fsv, version_file) == TRUE

\* Line 21: version_path.exists().
PathExists(fsv, version_file) == fsv[version_file].exists

\* A script that accepts every increment type.
KnownType_any(versions, increment_type) == TRUE

\* Line 47: increment_type in versions.
KnownType(versions, increment_type) == increment_type \in DOMAIN versions

\* Lines 11-84.  The result holds the return value, the file system after
\* the call, the file operations performed and the two output channels.
increment_version(fsv, version_file, increment_type) ==
    IF ~PathExists(fsv, version_file)
    THEN [ret |-> FALSE, fs |-> fsv, io |-> <<"exists">>,
          stderr |-> <<<<"Error: not found", version_file>>>>,
          stdout |-> <<>>,
          versions |-> [key \in KeySet |-> 0]]
    ELSE LET content  == fsv[version_file].text
             parsed   == ExtractVersions(content)
             warnings == Warnings(content)
         IN  IF ~KnownType(parsed, increment_type)
             THEN [ret |-> FALSE, fs |-> fsv, io |-> <<"exists", "read_text">>,
                   stderr |-> Append(warnings,
                                     <<"Error: Unknown increment type", increment_type>>),
                   stdout |-> <<>>,
                   versions |-> parsed]
             ELSE LET versions == Increment(parsed, increment_type)
                      updated  == UpdateStrings(UpdateContent(content, versions),
                                                versions)
                  IN  [ret |-> TRUE,
                       fs |-> [fsv EXCEPT ![version_file] = File(updated)],
                       io |-> <<"exists", "read_text", "write_text">>,
                       stderr |-> warnings,
                       stdout |-> <<<<"Version incremented:", increment_type>>
                                        \o version_string(versions)>>,
                       versions |-> versions]

-----------------------------------------------------------------------------
(* __main__ *)

Script == "increment_version.py"

DefaultFile == "version.h"

DefaultType == "build"

Paths == {DefaultFile, "main/version.h"}

\* Values given as the second command line argument.
Types == KeySet \cup {"bogus"}

\* sys.argv, the name of the script first.
ArgvNone == {<<Script>>}
ArgvFile == {<<Script, p>> : p \in Paths}
ArgvBoth == {<<Script, p, t>> : p \in Paths, t \in Types}

\* Lines 88-94.
TypeOf(argv) == IF Len(argv) > 2 THEN argv[3] ELSE DefaultType
FileOf(argv) == IF Len(argv) > 1 THEN argv[2] ELSE DefaultFile

NoCall ==
    [made |-> FALSE, argv |-> <<>>, file |-> DefaultFile, type |-> DefaultType,
     before |-> Absent, ret |-> FALSE, exit |-> 0, io |-> <<>>,
     stderr |-> <<>>, stdout |-> <<>>, versions |-> [key \in KeySet |-> 0]]

\* What is kept of the run before the last one.
Earlier(c) ==
    [made |-> c.made, file |-> c.file, type |-> c.type, before |-> c.before,
     ret |-> c.ret]

\* Lines 86-97: one run of the script.
Main(argv) ==
    /\ runs < MaxRuns
    /\ LET file == FileOf(argv)
           type == TypeOf(argv)
       IN  \E r \in {increment_version(fs, file, type)} :
           /\ fs' = r.fs
           /\ call' = [made |-> TRUE, argv |-> argv, file |-> file, type |-> type,
                       before |-> fs[file], ret |-> r.ret,
                       exit |-> IF r.ret THEN 0 ELSE 1,
                       io |-> r.io, stderr |-> r.stderr, stdout |-> r.stdout,
                       versions |-> r.versions]
           /\ prev' = Earlier(call)
           /\ runs' = runs + 1

RunDefault == \E argv \in ArgvNone : Main(argv)
RunWithFile == \E argv \in ArgvFile : Main(argv)
RunWithFileAndType == \E argv \in ArgvBoth : Main(argv)

-----------------------------------------------------------------------------
(* Input files *)

IntLine(key, blanks, digits) ==
    <<patterns[key].literal>> \o blanks \o digits \o <<NL>>

StrLine(p, blanks, payload) ==
    <<p.literal>> \o blanks \o <<QUOTE>> \o payload \o <<QUOTE, NL>>

Preamble ==
    <<"#pragma once", NL,
      "#define FIRMWARE_NAME", SP, QUOTE, "rtp", QUOTE, NL>>

Trailer == <<"// end", NL>>

Major1 == IntLine("major", <<SP>>, <<"1">>)
Minor2 == IntLine("minor", <<SP>>, <<"2">>)
Patch3 == IntLine("patch", <<SP>>, <<"3">>)
Build9 == IntLine("build", <<SP, SP>>, <<"9">>)
String1239 == StrLine(StringPattern, <<SP>>, <<"1", ".", "2", ".", "3", "-", "9">>)
Full1239 ==
    StrLine(FullPattern, <<SP>>,
            <<ProductName, "1", ".", "2", ".", "3", "-", "9">>)

\* The header of the repository's format with 1.2.3-9.
Canonical ==
    Preamble \o Major1 \o Minor2 \o Patch3 \o Build9 \o String1239 \o Full1239 \o Trailer

InputTexts ==
    { Canonical,
      \* no integer field at all
      Preamble \o String1239 \o Full1239 \o Trailer,
      \* one integer field absent
      Preamble \o Minor2 \o Patch3 \o Build9 \o String1239 \o Full1239,
      Preamble \o Major1 \o Minor2 \o Patch3 \o String1239 \o Full1239,
      \* two absent, one of them written without digits
      Preamble \o Major1 \o <<patterns["minor"].literal, SP, "(2)", NL>>
           \o Build9 \o String1239 \o Full1239,
      \* leading zeros, tabs, values at a carry
      IntLine("major", <<TAB>>, <<"0", "0", "7">>)
           \o IntLine("minor", <<SP>>, <<"9">>)
           \o IntLine("patch", <<SP, TAB>>, <<"1", "9">>)
           \o IntLine("build", <<SP>>, <<"9", "9">>)
           \o StrLine(StringPattern, <<TAB>>, <<"7", ".", "9", ".", "1", "9", "-", "9", "9">>)
           \o StrLine(FullPattern, <<SP>>, <<"old">>),
      \* stale and empty payloads
      Preamble \o Major1 \o Minor2 \o Patch3 \o Build9
           \o StrLine(StringPattern, <<SP>>, <<>>)
           \o StrLine(FullPattern, <<SP>>, <<"dev", SP, "build">>),
      Preamble \o Major1 \o Minor2 \o Patch3 \o Build9
           \o StrLine(StringPattern, <<SP>>, <<"dev">>)
           \o StrLine(FullPattern, <<SP>>, <<>>),
      \* no string declaration
      Major1 \o Minor2 \o Patch3 \o Build9 \o Trailer,
      \* a field declared twice
      Preamble \o Major1 \o Minor2 \o Patch3 \o Build9 \o String1239 \o Full1239
           \o <<"#else", NL>> \o IntLine("major", <<SP>>, <<"7">>),
      \* the last line has no line break
      String1239 \o Major1 \o Minor2 \o Patch3
           \o <<patterns["build"].literal, SP, "4">>,
      \* an empty file
      <<>> }

OtherText ==
    IntLine("major", <<SP>>, <<"0">>) \o IntLine("minor", <<SP>>, <<"0">>)
        \o IntLine("patch", <<SP>>, <<"0">>) \o IntLine("build", <<SP>>, <<"0">>)
        \o StrLine(StringPattern, <<SP>>, <<"0", ".", "0", ".", "0", "-", "0">>)

Init ==
    /\ fs \in {[p \in Paths |-> IF p = DefaultFile THEN f ELSE Absent] :
                  f \in {File(t) : t \in InputTexts} \cup {Absent}}
              \cup {[p \in Paths |-> IF p = DefaultFile THEN f ELSE File(OtherText)] :
                  f \in {File(Canonical), Absent}}
    /\ runs = 0
    /\ call = NoCall
    /\ prev = Earlier(NoCall)

Next == RunDefault \/ RunWithFile \/ RunWithFileAndType

Spec == Init /\ [][Next]_vars

-----------------------------------------------------------------------------
(* Reading the last run *)

\* The text of the file before and after the last run.
Before == call.before.text
After == fs[call.file].text

\* The pattern of an integer field is found in a text.
Present(text, key) == re_search(patterns[key], text) # 0
AllPresent(text) == \A key \in KeySet : Present(text, key)

\* The last run was given an existing file and increment type t.
RanOn(t) == call.made /\ call.before.exists /\ call.type = t

Succeeded == call.ret /\ call.exit = 0 /\ call.io[Len(call.io)] = "write_text"

\* The version string printed by the last run.
Printed == SubSeq(call.stdout[1], 3, Len(call.stdout[1]))

Is1239(v) == v["major"] = 1 /\ v["minor"] = 2 /\ v["patch"] = 3 /\ v["build"] = 9

-----------------------------------------------------------------------------
(* C1 - C3: the increment and its cascading resets *)

\* C1: on an existing file in which the four integer fields are present, a
\* run with 'major' succeeds and leaves the file with major one higher,
\* minor and patch 0 and build as it was.
C1_MajorIncrement ==
    (RanOn("major") /\ AllPresent(Before)) =>
        LET old == ExtractVersions(Before)
            new == ExtractVersions(After)
        IN  /\ Succeeded
            /\ AllPresent(After)
            /\ new["major"] = old["major"] + 1
            /\ new["minor"] = 0
            /\ new["patch"] = 0
            /\ new["build"] = old["build"]

C1_Witness ==
    /\ RanOn("major") /\ AllPresent(Before) /\ call.ret
    /\ ExtractVersions(Before)["minor"] > 0
    /\ ExtractVersions(Before)["patch"] > 0
    /\ ExtractVersions(Before)["build"] > 0

\* C2: on an existing file in which the four integer fields are present, a
\* run with 'minor' succeeds and leaves the file with minor one higher,
\* patch 0, major and build as they were; 1,2,3,9 becomes 1,3,0,9 and the
\* version string is 1.3.0-9.
C2_MinorIncrement ==
    (RanOn("minor") /\ AllPresent(Before)) =>
        LET old == ExtractVersions(Before)
            new == ExtractVersions(After)
        IN  /\ Succeeded
            /\ AllPresent(After)
            /\ new["minor"] = old["minor"] + 1
            /\ new["patch"] = 0
            /\ new["major"] = old["major"]
            /\ new["build"] = old["build"]
            /\ Is1239(old) => Printed = <<"1", ".", "3", ".", "0", "-", "9">>

C2_Witness ==
    /\ RanOn("minor") /\ AllPresent(Before) /\ call.ret
    /\ Is1239(ExtractVersions(Before))
    /\ After # Before

\* C3: on an existing file in which the four integer fields are present, a
\* run with 'patch' or 'build' succeeds and leaves the file with that field
\* one higher and the three other fields as they were; 1,2,3,9 with 'patch'
\* becomes 1,2,4,9 and the version string is 1.2.4-9.
C3_PatchBuildIncrement ==
    \A t \in {"patch", "build"} :
        (RanOn(t) /\ AllPresent(Before)) =>
            LET old == ExtractVersions(Before)
                new == ExtractVersions(After)
            IN  /\ Succeeded
                /\ AllPresent(After)
                /\ new[t] = old[t] + 1
                /\ \A key \in KeySet \ {t} : new[key] = old[key]
                /\ (Is1239(old) /\ t = "patch") =>
                        Printed = <<"1", ".", "2", ".", "4", "-", "9">>

\* A build number is carried from 9 to 10.
C3_Witness ==
    /\ RanOn("build") /\ AllPresent(Before) /\ call.ret
    /\ ExtractVersions(Before)["build"] = 9
    /\ ExtractVersions(After)["build"] = 10
    /\ ExtractVersions(Before)["patch"] > 0

-----------------------------------------------------------------------------
(* C4, C5: the two fatal conditions *)

\* C4: on an existing file, a run with an increment type that is not one
\* of major, minor, patch, build fails with exit status 1 and writes
\* nothing: the file system after the run is the file system before it,
\* whether or not the fields are present.
C4_UnknownTypeLeavesFile ==
    [][(call'.before.exists /\ call'.type \notin KeySet) =>
            /\ ~call'.ret
            /\ call'.exit = 1
            /\ \A i \in 1..Len(call'.io) : call'.io[i] # "write_text"
            /\ fs' = fs
            /\ fs'[call'.file] = call'.before]_vars

C4_Witness ==
    /\ call.made /\ call.before.exists /\ call.type \notin KeySet
    /\ ~AllPresent(Before)
    /\ Before # <<>>
    /\ prev.made /\ prev.ret

\* C5: when the path does not exist, a run fails with exit status 1 for
\* every increment type, reads and writes nothing, and the path does not
\* exist afterwards.
C5_MissingFileFails ==
    [][(~call'.before.exists) =>
            /\ ~call'.ret
            /\ call'.exit = 1
            /\ call'.io = <<"exists">>
            /\ fs' = fs
            /\ ~fs'[call'.file].exists]_vars

C5_Witness ==
    /\ call.made /\ ~call.before.exists /\ call.type \in KeySet
    /\ prev.made /\ ~prev.before.exists /\ prev.type \notin KeySet

-----------------------------------------------------------------------------
(* C6: two runs in succession *)

\* The last two runs were given the same file and the same valid increment
\* type, and the first was given an existing file.
TwoRuns(t) ==
    /\ prev.made /\ call.made
    /\ prev.before.exists
    /\ prev.file = call.file
    /\ prev.type = t /\ call.type = t

\* The file that two cumulative increments of type t of the values parsed
\* from a text give.
TwiceFrom(text, t) ==
    LET v == Increment(Increment(ExtractVersions(text), t), t)
    IN  UpdateStrings(UpdateContent(text, v), v)

\* C6 as stated: for every existing file and every valid increment type,
\* two runs in succession leave the file that two cumulative increments of
\* the values parsed from the original file give, the field at its
\* original value plus 2.
C6_TwoRunsEveryFile ==
    \A t \in KeySet :
        TwoRuns(t) =>
            /\ After = TwiceFrom(prev.before.text, t)
            /\ call.versions[t] = ExtractVersions(prev.before.text)[t] + 2
            /\ Printed = version_string(
                   Increment(Increment(ExtractVersions(prev.before.text), t), t))

\* C6 as amended: the same for every existing file in which the pattern of
\* the incremented field is found.
C6_TwoRunsFieldPresent ==
    \A t \in KeySet :
        (TwoRuns(t) /\ Present(prev.before.text, t)) =>
            /\ After = TwiceFrom(prev.before.text, t)
            /\ ExtractVersions(After)[t] = ExtractVersions(prev.before.text)[t] + 2
            /\ call.versions[t] = ExtractVersions(prev.before.text)[t] + 2
            /\ Printed = version_string(
                   Increment(Increment(ExtractVersions(prev.before.text), t), t))

\* Two runs with minor on a file without the major field, or two runs with
\* build over the carry from 99 to 101.
C6_Witness ==
    \/ /\ TwoRuns("minor")
       /\ Present(prev.before.text, "minor")
       /\ ~Present(prev.before.text, "major")
       /\ ExtractVersions(After)["minor"] = 4
    \/ /\ TwoRuns("build")
       /\ ExtractVersions(prev.before.text)["build"] = 99
       /\ ExtractVersions(After)["build"] = 101

-----------------------------------------------------------------------------
(* C7, C8: what a successful run rewrites *)

Mark == "<span>"

\* A text with the leftmost match of pattern p reduced to its first group
\* and a mark.
MaskFirst(p, s) ==
    LET h == re_search(p, s)
        m == MatchAt(p, s, h)
    IN  IF h = 0 THEN s
        ELSE SubSeq(s, 1, m.g1) \o <<Mark>> \o SubSeq(s, m.g2 + 1, Len(s))

\* A text with the matched digit span of each of the four fields and the
\* payload of every version-string and full-version declaration masked.
Masked(s) ==
    LET M[i \in 0..Len(Keys)] ==
            IF i = 0 THEN s ELSE MaskFirst(patterns[Keys[i]], M[i - 1])
    IN  re_sub(FullPattern, <<Mark>>, re_sub(StringPattern, <<Mark>>, M[Len(Keys)]))

\* C7: after a successful run, everything outside the matched digit span
\* of each field, one per field, and outside the quoted payloads of the
\* two string declarations is as it was before the run.
C7_OnlyMatchedSpansChange ==
    (call.made /\ call.ret) => Masked(After) = Masked(Before)

\* A declaration of a string: the literal, blanks, and a quoted payload of
\* any length; the index of its closing quote, 0 when there is none at i.
DeclClose(p, s, i) ==
    LET w == SpaceRun(s, i + 1)
        e == ClassRun(p, s, w + 2)
    IN  IF /\ i <= Len(s) /\ s[i] = p.literal
           /\ w >= i + 1
           /\ w + 1 <= Len(s) /\ s[w + 1] = QUOTE
           /\ e + 1 <= Len(s) /\ s[e + 1] = QUOTE
        THEN e + 1 ELSE 0

Decls(p, s) == {i \in 1..Len(s) : DeclClose(p, s, i) # 0}

Payload(p, s, i) == SubSeq(s, SpaceRun(s, i + 1) + 2, DeclClose(p, s, i) - 1)

\* C8: after a successful run on a file that holds a version-string and a
\* full-version declaration, the payload of the first is the version
\* string of the four values after the increment and the payload of the
\* second is the product name, " v" and that version string, whatever the
\* payloads were.
C8_StringsRendered ==
    (call.made /\ call.ret
        /\ Decls(StringPattern, Before) # {} /\ Decls(FullPattern, Before) # {}) =>
        /\ Decls(StringPattern, After) # {} /\ Decls(FullPattern, After) # {}
        /\ \A i \in Decls(StringPattern, After) :
              Payload(StringPattern, After, i) = Printed
        /\ \A i \in Decls(FullPattern, After) :
              Payload(FullPattern, After, i) = <<ProductName>> \o Printed

-----------------------------------------------------------------------------
(* C9: absent fields *)

\* C9: when the pattern of one or more fields is not found in an existing
\* file and the increment type is valid, the run warns about each absent
\* field, takes it as 0 before the increment, writes the file and returns
\* success; the fields that are present and the version strings hold the
\* values of the record.
C9_AbsentFieldsDefault ==
    (call.made /\ call.before.exists /\ call.type \in KeySet
        /\ ~AllPresent(Before)) =>
        LET read == [key \in KeySet |->
                        IF Present(Before, key) THEN ExtractVersions(Before)[key]
                        ELSE 0]
        IN  /\ Succeeded
            /\ DOMAIN call.versions = KeySet
            /\ call.versions = Increment(read, call.type)
            /\ \A key \in KeySet :
                  /\ Present(After, key) <=> Present(Before, key)
                  /\ Present(Before, key) =>
                        ExtractVersions(After)[key] = call.versions[key]
                  /\ ~Present(Before, key) <=>
                        \E i \in 1..Len(call.stderr) :
                            call.stderr[i] = <<"Warning: Could not find", key>>
            /\ Printed = version_string(call.versions)
            /\ \A i \in 1..Len(Before) :
                  /\ MatchAt(StringPattern, Before, i).hit =>
                        \E j \in Decls(StringPattern, After) :
                            Payload(StringPattern, After, j) = Printed
                  /\ MatchAt(FullPattern, Before, i).hit =>
                        \E j \in Decls(FullPattern, After) :
                            Payload(FullPattern, After, j) = <<ProductName>> \o Printed

\* The incremented field itself is absent and the strings are rewritten.
C9_Witness ==
    /\ call.made /\ call.before.exists /\ call.ret
    /\ call.type = "build"
    /\ ~Present(Before, "build")
    /\ Present(Before, "major")
    /\ After # Before

-----------------------------------------------------------------------------
(* C10: the order of versions *)

LexLess(a, b) ==
    \/ a["major"] < b["major"]
    \/ a["major"] = b["major"] /\ a["minor"] < b["minor"]
    \/ a["major"] = b["major"] /\ a["minor"] = b["minor"] /\ a["patch"] < b["patch"]
    \/ /\ a["major"] = b["major"] /\ a["minor"] = b["minor"]
       /\ a["patch"] = b["patch"] /\ a["build"] < b["build"]

\* C10: every successful run on a file in which the four fields are
\* present leaves the four fields present, strictly increases the tuple
\* (major, minor, patch, build) read from the file in lexicographic order,
\* and does not decrease build.
C10_VersionIncreases ==
    (call.made /\ call.ret /\ AllPresent(Before)) =>
        /\ AllPresent(After)
        /\ LexLess(ExtractVersions(Before), ExtractVersions(After))
        /\ ExtractVersions(After)["build"] >= ExtractVersions(Before)["build"]

\* Three successful runs in a row, the last a 'major' on a build above 0.
C10_Witness ==
    /\ runs = 3
    /\ prev.made /\ prev.ret /\ prev.file = call.file
    /\ call.made /\ call.ret /\ call.type = "major"
    /\ AllPresent(Before)
    /\ ExtractVersions(Before)["build"] > 0
    /\ ExtractVersions(After)["major"] >= 3

====
